---- MODULE Spec2Model ----
(***************************************************************************)
(* Image codec and error-metric utilities of scripts/common.py.            *)
(*                                                                         *)
(* numpy floats are modelled as exact decimal rationals together with NaN  *)
(* and the two infinities.  A finite result whose magnitude exceeds the    *)
(* largest float32 becomes an infinity; np.power is rounded down to a grid *)
(* of 10^-PowDigits; rounding of the other float32 operations and signed   *)
(* zeros are not modelled.  Numerators and denominators are unbounded      *)
(* naturals kept as little-endian sequences of limbs.                      *)
(***************************************************************************)
EXTENDS Integers, Sequences, FiniteSets, TLC

RECURSIVE Call(_, _)

(***************************************************************************)
(* Unbounded naturals.  Carries are propagated over halves of the limbs,   *)
(* which keeps the evaluation of long numbers shallow.                     *)
(***************************************************************************)
Base == 10 ^ 4

RECURSIVE NatOf(_)
NatOf(i) == IF i = 0 THEN <<>> ELSE <<i % Base>> \o NatOf(i \div Base)

\* a without its leading zero limbs
NStrip(a) ==
    LET nz == {i \in 1..Len(a) : a[i] # 0}
    IN  IF nz = {} THEN <<>>
        ELSE SubSeq(a, 1, CHOOSE i \in nz : \A j \in nz : j <= i)

Limb(a, i) == IF i >= 1 /\ i <= Len(a) THEN a[i] ELSE 0

\* limbs lo..hi of a + b with carry c coming in, as <<limbs, carry out>>
RECURSIVE NAddC(_, _, _, _, _)
NAddC(a, b, lo, hi, c) ==
    IF lo = hi
    THEN LET t == Limb(a, lo) + Limb(b, lo) + c
         IN  <<<<t % Base>>, t \div Base>>
    ELSE LET mid == (lo + hi) \div 2
             l == NAddC(a, b, lo, mid, c)
             r == NAddC(a, b, mid + 1, hi, l[2])
         IN  <<l[1] \o r[1], r[2]>>

NAdd(a, b) ==
    LET n == IF Len(a) > Len(b) THEN Len(a) ELSE Len(b)
    IN  IF n = 0 THEN <<>>
        ELSE LET s == NAddC(a, b, 1, n, 0)
             IN  IF s[2] = 0 THEN s[1] ELSE s[1] \o <<s[2]>>

\* limbs lo..hi of a - b with borrow c coming in, as <<limbs, borrow out>>
RECURSIVE NSubC(_, _, _, _, _)
NSubC(a, b, lo, hi, c) ==
    IF lo = hi
    THEN LET t == Limb(a, lo) - Limb(b, lo) - c
         IN  IF t < 0 THEN <<<<t + Base>>, 1>> ELSE <<<<t>>, 0>>
    ELSE LET mid == (lo + hi) \div 2
             l == NSubC(a, b, lo, mid, c)
             r == NSubC(a, b, mid + 1, hi, l[2])
         IN  <<l[1] \o r[1], r[2]>>

\* a - b for a >= b
NSub(a, b) == IF a = <<>> THEN <<>> ELSE NStrip(NSubC(a, b, 1, Len(a), 0)[1])

\* -1, 0 or 1 as a < b, a = b, a > b
NCmp(a, b) ==
    IF Len(a) > Len(b) THEN 1
    ELSE IF Len(a) < Len(b) THEN -1
    ELSE LET differ == {i \in 1..Len(a) : a[i] # b[i]}
         IN  IF differ = {} THEN 0
             ELSE LET top == CHOOSE i \in differ : \A j \in differ : j <= i
                  IN  IF a[top] > b[top] THEN 1 ELSE -1

\* a[lo]*b[k+1-lo] + ... + a[hi]*b[k+1-hi], as <<low limb, the rest>>
RECURSIVE ColSum(_, _, _, _, _)
ColSum(a, b, k, lo, hi) ==
    IF lo = hi
    THEN LET t == a[lo] * b[k + 1 - lo]
         IN  <<t % Base, t \div Base>>
    ELSE LET mid == (lo + hi) \div 2
             l == ColSum(a, b, k, lo, mid)
             r == ColSum(a, b, k, mid + 1, hi)
             t == l[1] + r[1]
         IN  <<t % Base, l[2] + r[2] + (t \div Base)>>

\* column k of the product a*b
Col(a, b, k) ==
    LET lo == IF k > Len(b) THEN k + 1 - Len(b) ELSE 1
        hi == IF k < Len(a) THEN k ELSE Len(a)
    IN  IF lo > hi THEN <<0, 0>> ELSE ColSum(a, b, k, lo, hi)

\* limbs lo..hi of the product with columns cols and carry c coming in
RECURSIVE NMulC(_, _, _, _)
NMulC(cols, lo, hi, c) ==
    IF lo = hi
    THEN LET t == cols[lo][1] + c
         IN  <<<<t % Base>>, cols[lo][2] + (t \div Base)>>
    ELSE LET mid == (lo + hi) \div 2
             l == NMulC(cols, lo, mid, c)
             r == NMulC(cols, mid + 1, hi, l[2])
         IN  <<l[1] \o r[1], r[2]>>

NMul(a, b) == IF a = <<>> \/ b = <<>> THEN <<>>
              ELSE IF b = <<1>> THEN a
              ELSE IF a = <<1>> THEN b
              ELSE LET n == Len(a) + Len(b)
                       cols == <<>> \o [k \in 1..n |-> Col(a, b, k)]
                   IN  NStrip(NMulC(cols, 1, n, 0)[1])

RECURSIVE NPow(_, _)
NPow(a, k) == IF k = 0 THEN <<1>>
              ELSE IF k % 2 = 0 THEN LET h == NPow(a, k \div 2) IN NMul(h, h)
              ELSE NMul(a, NPow(a, k - 1))

\* a * 10^j
NScale10(a, j) ==
    IF a = <<>> \/ j = 0 THEN a
    ELSE [i \in 1..(j \div 4) |-> 0] \o NMul(a, <<10 ^ (j % 4)>>)

(***************************************************************************)
(* Floats: k is "fin", "nan" or "inf"; a finite value is s*n/(10^e * d)    *)
(***************************************************************************)
Fin(s, n, e, d) == [k |-> "fin", s |-> s, n |-> n, e |-> e, d |-> d]

Zero == Fin(0, <<>>, 0, <<1>>)
NaN == [k |-> "nan", s |-> 0, n |-> <<>>, e |-> 0, d |-> <<1>>]
PInf == [k |-> "inf", s |-> 1, n |-> <<>>, e |-> 0, d |-> <<1>>]
NInf == [k |-> "inf", s |-> -1, n |-> <<>>, e |-> 0, d |-> <<1>>]
Inf(s) == IF s < 0 THEN NInf ELSE PInf

\* the float i / 10^e
Dec(i, e) == IF i = 0 THEN Zero
             ELSE Fin(IF i < 0 THEN -1 ELSE 1, NatOf(IF i < 0 THEN -i ELSE i), e, <<1>>)

\* the float i / j, j > 0
Frac(i, j) == IF i = 0 THEN Zero
              ELSE Fin(IF i < 0 THEN -1 ELSE 1, NatOf(IF i < 0 THEN -i ELSE i), 0, NatOf(j))

FInt(i) == Dec(i, 0)

\* largest finite float32, 340282346638528859811704183484516925440
FltMaxN == <<5440, 1692, 4845, 4183, 1170, 8598, 8528, 4663, 2823, 340>>

\* a finite result as float32 stores it: out-of-range becomes an infinity
Round32(x) == Call("Round32", <<x>>)

\* signed sum of two magnitudes over a common denominator
SignedSum(s1, n1, s2, n2) == Call("SignedSum", <<s1, n1, s2, n2>>)

FinAdd(x, y) == Call("FinAdd", <<x, y>>)

FNeg(x) == Call("FNeg", <<x>>)

FAdd(x, y) == Call("FAdd", <<x, y>>)

FSub(x, y) == Call("FSub", <<x, y>>)

FMul(x, y) == Call("FMul", <<x, y>>)

FDiv(x, y) == Call("FDiv", <<x, y>>)

FAbs(x) == Call("FAbs", <<x>>)

IsFinite(x) == x.k = "fin"

\* sign of x - y for x, y not NaN
FCmp(x, y) == Call("FCmp", <<x, y>>)

FEq(x, y) == Call("FEq", <<x, y>>)

FLt(x, y) == Call("FLt", <<x, y>>)

FLe(x, y) == Call("FLe", <<x, y>>)

FGt(x, y) == Call("FGt", <<x, y>>)

\* np.maximum: NaN propagates
FMaximum(x, y) == Call("FMaximum", <<x, y>>)

\* np.clip: NaN propagates
FClip(x, lo, hi) == Call("FClip", <<x, lo, hi>>)

(***************************************************************************)
(* Sample values the inputs are drawn from                                 *)
(***************************************************************************)
\* 1e30, whose square no float32 holds, and 1e18, whose square one does
Huge == Fin(1, NScale10(<<1>>, 30), 0, <<1>>)
Large == Fin(1, NScale10(<<1>>, 18), 0, <<1>>)

Palette == {Dec(-1, 0), Dec(-1, 2), Dec(-2, 2), Zero, Dec(5, 1), FInt(1), FInt(150),
            Large, Huge, NaN, PInf, NInf}

Colours == {<<NaN, Dec(-1, 0), FInt(2)>>, <<FInt(1), Dec(5, 1), Zero>>}

\* 8-bit values of raster files, on both sides of the sRGB limit
RasterBytes == <<0, 1, 10, 11, 128, 255>>
RasterAlphas == <<0, 1, 128, 255>>

\* (v + 0.055) / 1.055
SrgbArg(v) == Call("SrgbArg", <<v>>)

\* arguments of np.power that the sample values lead to
PowKnown ==
    {<<FClip(v, Zero, FInt(1)), 5, 11>> :
        v \in {u \in Palette \cup UNION {{c[1], c[2], c[3]} : c \in Colours} : u.k = "fin"}}
    \cup {<<SrgbArg(Frac(RasterBytes[i], 255)), 12, 5>> : i \in 1..Len(RasterBytes)}

(***************************************************************************)
(* np.power(x, p/q) for a rational exponent, rounded down to the grid      *)
(***************************************************************************)
PowDigits == 6

PowScale == 10 ^ PowDigits

\* whether (r / PowScale)^q <= x^p, as r^q * den^p <= PowScale^q * num^p
PowFits(r, q, denp, rhs) == NCmp(NMul(NPow(NatOf(r), q), denp), rhs) <= 0

RECURSIVE PowUpper(_, _, _, _)
PowUpper(hi, q, denp, rhs) ==
    IF PowFits(hi, q, denp, rhs) THEN PowUpper(2 * hi, q, denp, rhs) ELSE hi

\* lo fits, hi does not: the largest r that fits, by quartering lo..hi
RECURSIVE PowBisect(_, _, _, _, _)
PowBisect(lo, hi, q, denp, rhs) ==
    IF hi - lo <= 1 THEN lo
    ELSE LET cut   == {lo + ((hi - lo) * k) \div 4 : k \in 1..3} \ {lo}
             fit   == {m \in cut : PowFits(m, q, denp, rhs)}
             low   == IF fit = {} THEN lo
                      ELSE CHOOSE m \in fit : \A n \in fit : n <= m
             above == {m \in cut : m > low}
             high  == IF above = {} THEN hi
                      ELSE CHOOSE m \in above : \A n \in above : m <= n
         IN  PowBisect(low, high, q, denp, rhs)

PowFix(x, p, q) ==
    IF x.s = 0 THEN Zero
    ELSE IF NCmp(x.n, NScale10(x.d, x.e)) = 0 THEN FInt(1)
    ELSE LET denp == NPow(NScale10(x.d, x.e), p)
             rhs  == NMul(NPow(NatOf(PowScale), q), NPow(x.n, p))
             hi   == PowUpper(PowScale, q, denp, rhs)
         IN  Dec(PowBisect(0, hi, q, denp, rhs), PowDigits)

\* arguments of np.power that reading a raster file and writing it back lead to
PowKnownBack ==
    {<<FDiv(FMul(Round32(PowFix(SrgbArg(Frac(RasterBytes[i], 255)), 12, 5)), a), a), 5, 12>> :
        i \in 1..Len(RasterBytes),
        a \in {Frac(RasterAlphas[j], 255) : j \in 2..Len(RasterAlphas)}}

\* the powers the model's inputs ask for, computed once
PowMemo == [a \in PowKnown \cup PowKnownBack |-> PowFix(a[1], a[2], a[3])]

FPow(x, p, q) == Call("FPow", <<x, p, q>>)

(***************************************************************************)
(* Arrays: a shape and the entries in row-major order                      *)
(***************************************************************************)
Array(shape, data) == [shape |-> shape, data |-> data]

\* (concatenation makes the sequence concrete, so entries are computed once)
Map1(F(_), a) == <<>> \o [i \in 1..Len(a) |-> F(a[i])]
Map2(F(_, _), a, b) == <<>> \o [i \in 1..Len(a) |-> F(a[i], b[i])]

SumFrom(a, i, acc) == Call("SumFrom", <<a, i, acc>>)

\* np.mean of the entries; the mean of nothing is NaN
Mean(a) == Call("Mean", <<a>>)

\* np.mean(a, axis=2) of an h x w x c array
MeanAxis2(a) == Call("MeanAxis2", <<a>>)

\* x[~isfinite(x)] = 0
ZeroNonFinite(data) == Call("ZeroNonFinite", <<data>>)

(***************************************************************************)
(* Error metrics                                                           *)
(***************************************************************************)
Hundredth == Dec(1, 2)

L1Sum(img, ref) == Map2(LAMBDA x, y : FAbs(FAdd(x, y)), img, ref)

L1(img, ref) == Call("L1", <<img, ref>>)

APEMinus(img, ref) ==
    Map2(LAMBDA x, r : FDiv(FAbs(FSub(x, r)), FSub(r, Hundredth)), img, ref)

APE(img, ref) == Call("APE", <<img, ref>>)

SAPE(img, ref) == Call("SAPE", <<img, ref>>)

L2(img, ref) == Call("L2", <<img, ref>>)

RSE(img, ref) == Call("RSE", <<img, ref>>)

\* np.sort: ascending, NaN last
SortsBefore(x, y) == Call("SortsBefore", <<x, y>>)

Insert(x, s) == Call("Insert", <<x, s>>)

Sort(s) == Call("Sort", <<s>>)

\* int(1e-6 * size)
TrimSkip(size) == Call("TrimSkip", <<size>>)

trim(error) == Call("trim", <<error>>)

(***************************************************************************)
(* What a call hands back: an array, a scalar, or a raised exception       *)
(***************************************************************************)
RetArray(a) == [kind |-> "array", shape |-> a.shape, data |-> a.data,
                exc |-> "", msg |-> <<>>]
RetScalar(v) == [kind |-> "scalar", shape |-> <<>>, data |-> <<v>>,
                 exc |-> "", msg |-> <<>>]
Raise(exc, msg) == [kind |-> "raise", shape |-> <<>>, data |-> <<>>,
                    exc |-> exc, msg |-> msg]
NoRet == [kind |-> "none", shape |-> <<>>, data |-> <<>>, exc |-> "", msg |-> <<>>]

(***************************************************************************)
(* SSIM                                                                    *)
(***************************************************************************)
\* entry (i, j, ch) of an h x w x c array, 1-based
At3(a, i, j, ch) == a.data[((i - 1) * a.shape[2] + (j - 1)) * a.shape[3] + ch]

\* entry (i, j) of an h x w array, 1-based
At2(a, i, j) == a.data[(i - 1) * a.shape[2] + j]

\* 0.4545454545 is 5/11 to within 5e-11
Gamma(v) == Call("Gamma", <<v>>)

\* a[:,:,ch] needs ch < c: indexing channel 1 or 2 of a narrower array raises
luminance(a) == Call("luminance", <<a>>)

Kernel == <<Dec(120078, 6), Dec(233881, 6), Dec(292082, 6), Dec(233881, 6),
            Dec(120078, 6)>>

\* scipy's default boundary mode "reflect": (d c b a | a b c d | d c b a)
Reflect(m, n) == LET t == m % (2 * n) IN IF t < n THEN t ELSE 2 * n - 1 - t

Taps(a, axis, i, j, t, acc) == Call("Taps", <<a, axis, i, j, t, acc>>)

convolve1d(a, axis) == Call("convolve1d", <<a, axis>>)

blur(a) == Call("blur", <<a>>)

\* blur(a*a) - mA**2
LocalVar(a, mA) == Call("LocalVar", <<a, mA>>)

LocalCovNoMeanB(a, b, mA, mB) ==
    Map2(FSub, blur(Array(a.shape, Map2(FMul, a.data, b.data))).data, mA)

\* blur(a*b) - mA*mB
LocalCov(a, b, mA, mB) == Call("LocalCov", <<a, b, mA, mB>>)

SSIMMap(a, b) == Call("SSIMMap", <<a, b>>)

SSIM(a, b) == Call("SSIM", <<a, b>>)

(***************************************************************************)
(* compute_error_img, compute_error.  Arguments are references into the     *)
(* caller's arrays: heap maps a reference to the array it names.           *)
(***************************************************************************)
Metrics == {"MAE", "MAPE", "SMAPE", "MSE", "MScE", "MRSE", "MtRSE", "MRScE", "SSIM"}

Clip(data, lo, hi) == Call("Clip", <<data, lo, hi>>)

\* img[np.logical_not(np.isfinite(img))] = 0 writes into the caller's array
Sanitize(heap, i) == Call("Sanitize", <<heap, i>>)

UnknownMetricNoName(metric) == Raise("ValueError", <<"Unknown metric.">>)

\* raise ValueError(f"Unknown metric: {metric}.")
UnknownMetric(metric) == Raise("ValueError", <<"Unknown metric: ", metric, ".">>)

MetricOf(metric, shape, img, ref) == Call("MetricOf", <<metric, shape, img, ref>>)

compute_error_img(heap, metric, i, r) == Call("compute_error_img", <<heap, metric, i, r>>)

compute_error(heap, metric, i, r) == Call("compute_error", <<heap, metric, i, r>>)

(***************************************************************************)
(* Files: a path is a stem and an extension; a file is absent, a .bin file *)
(* (two int32 of header, then float16 values, then extra odd bytes), a     *)
(* file too short to hold the header, or a lossless raster of c channels   *)
(* of 8-bit values                                                         *)
(***************************************************************************)
Path(stem, ext) == [stem |-> stem, ext |-> ext]

\* os.path.splitext(file)[1]
splitext(file) == file.ext

File(kind, h, w, c, data, extra) ==
    [kind |-> kind, h |-> h, w |-> w, c |-> c, data |-> data, extra |-> extra]

Absent == File("absent", 0, 0, 0, <<>>, 0)
ShortFile == File("short", 0, 0, 0, <<>>, 0)
BinFile(h, w, data, extra) == File("bin", h, w, 0, data, extra)
RasterFile(h, w, c, data) == File("raster", h, w, c, data, 0)

NoImage == Array(<<>>, <<>>)

RetNone == [kind |-> "None", shape |-> <<>>, data |-> <<>>, exc |-> "", msg |-> <<>>]

FileNotFound == Raise("FileNotFoundError", <<"No such file or directory">>)

(***************************************************************************)
(* astype(np.float16): round to nearest, ties to even, 11 significant bits, *)
(* exponents -14..15, subnormals below, infinity from 65520                *)
(***************************************************************************)
\* 2^j
Two(j) == Call("Two", <<j>>)

\* the exponent of finite a > 0: the largest e in -14..15 with 2^e <= a
HalfExp(a, e) == Call("HalfExp", <<a, e>>)

\* the largest m in lo..hi-1 with m*q <= a
HalfFloor(a, q, lo, hi) == Call("HalfFloor", <<a, q, lo, hi>>)

RoundHalf(x) == Call("RoundHalf", <<x>>)

(***************************************************************************)
(* The .bin codec                                                          *)
(***************************************************************************)
\* np.dstack((img, fill * np.ones([h, w, k])))
DStack(img, k, fill) == Call("DStack", <<img, k, fill>>)

PadZeros(img) == IF img.shape[3] < 4 THEN DStack(img, 4 - img.shape[3], Zero) ELSE img

\* fewer than four channels are filled up with channels of ones
PadOnes(img) == Call("PadOnes", <<img>>)

WriteBin(img) == Call("WriteBin", <<img>>)

\* number of bytes after the 8 bytes of header
PayloadBytes(f) == 2 * Len(f.data) + f.extra

\* np.frombuffer(bytes, dtype=np.float16, count=count, offset=8)
frombuffer(f, count) == Call("frombuffer", <<f, count>>)

ReadBin(f) == Call("ReadBin", <<f>>)

(***************************************************************************)
(* The raster codec (lossless 8-bit formats; .jpg and .exr go through      *)
(* codecs outside this file and are left out)                              *)
(***************************************************************************)
srgb_to_linear(v) == Call("srgb_to_linear", <<v>>)

linear_to_srgb(v) == Call("linear_to_srgb", <<v>>)

\* F on the first three channels of a four-channel array; a is the pixel's
\* fourth channel
OnRGB(F(_, _), img) ==
    Array(img.shape,
          <<>> \o [i \in 1..Len(img.data) |->
              IF i % 4 = 0 THEN img.data[i]
              ELSE F(img.data[i], img.data[((i - 1) \div 4) * 4 + 4])])

\* img.convert("RGBA"): three channels get an opaque alpha, grey with alpha
\* becomes three equal channels and the alpha
ConvertRGBA(f) ==
    IF f.c = 4 THEN f.data
    ELSE <<>> \o [i \in 1..(f.h * f.w * 4) |->
             LET p == (i - 1) \div 4
             IN  IF f.c = 3 THEN (IF i % 4 = 0 THEN 255 ELSE f.data[p * 3 + ((i - 1) % 4) + 1])
                 ELSE (IF i % 4 = 0 THEN f.data[p * 2 + 2] ELSE f.data[p * 2 + 1])]

read_image_pillow(f) == Call("read_image_pillow", <<f>>)

\* img[...,0:3] *= img[...,3:4]
Premultiply(v, a) == Call("Premultiply", <<v, a>>)

ReadRaster(f) == Call("ReadRaster", <<f>>)

KeepMultiplied(v, a) == v

\* np.divide(rgb, alpha, out=zeros, where=alpha != 0)
Unmultiply(v, a) == Call("Unmultiply", <<v, a>>)

\* the largest b in lo..hi-1 with b <= t
FloorIn(t, lo, hi) == Call("FloorIn", <<t, lo, hi>>)

\* (np.clip(v, 0, 1) * 255 + 0.5).astype(np.uint8); what the cast makes of a
\* NaN is not defined, and is the byte u
Quantise(v, u) == Call("Quantise", <<v, u>>)

\* the float image handed to write_image_pillow
Encoded(img) == Call("Encoded", <<img>>)

\* PIL.Image.fromarray takes 2, 3 or 4 channels of a three-dimensional array
write_image_pillow(files, file, img, u) == Call("write_image_pillow", <<files, file, img, u>>)

(***************************************************************************)
(* read_image, write_image                                                 *)
(***************************************************************************)
read_image(files, file) == Call("read_image", <<files, file>>)

write_image(files, file, img, u) == Call("write_image", <<files, file, img, u>>)

(***************************************************************************)
(* The definitions of the operators above.  Each operator hands its name   *)
(* and arguments to Call, which holds its definition, so that the          *)
(* definitions may use one another.                                        *)
(***************************************************************************)
Call(op, arg) ==
    CASE op = "FCmp" ->
        LET x == arg[1]
            y == arg[2]
        IN  (
            IF x.k = "inf" THEN (IF y.k = "inf" /\ y.s = x.s THEN 0 ELSE x.s)
            ELSE IF y.k = "inf" THEN -y.s
            ELSE FinAdd(x, [y EXCEPT !.s = -y.s]).s
            )
      [] op = "FinAdd" ->
        LET x == arg[1]
            y == arg[2]
        IN  (
            LET E  == IF x.e > y.e THEN x.e ELSE y.e
                ax == NScale10(x.n, E - x.e)
                ay == NScale10(y.n, E - y.e)
                same == x.d = y.d
                d  == IF same THEN x.d ELSE NMul(x.d, y.d)
                nx == IF same THEN ax ELSE NMul(ax, y.d)
                ny == IF same THEN ay ELSE NMul(ay, x.d)
                r  == SignedSum(x.s, nx, y.s, ny)
            IN  IF r[1] = 0 THEN Zero ELSE Fin(r[1], r[2], E, d)
            )
      [] op = "SignedSum" ->
        LET s1 == arg[1]
            n1 == arg[2]
            s2 == arg[3]
            n2 == arg[4]
        IN  (
            IF s1 = 0 THEN <<s2, n2>>
            ELSE IF s2 = 0 THEN <<s1, n1>>
            ELSE IF s1 = s2 THEN <<s1, NAdd(n1, n2)>>
            ELSE LET c == NCmp(n1, n2)
                 IN  IF c = 0 THEN <<0, <<>>>>
                     ELSE IF c > 0 THEN <<s1, NSub(n1, n2)>>
                     ELSE <<s2, NSub(n2, n1)>>
            )
      [] op = "Round32" ->
        LET x == arg[1]
        IN  (
            IF x.n = <<>> THEN Zero
            ELSE IF Len(x.n) < Len(x.d) + (x.e \div 4) + Len(FltMaxN) - 1 THEN x
            ELSE IF NCmp(x.n, NScale10(NMul(FltMaxN, x.d), x.e)) > 0 THEN Inf(x.s)
            ELSE x
            )
      [] op = "FAdd" ->
        LET x == arg[1]
            y == arg[2]
        IN  (
            IF x.k = "nan" \/ y.k = "nan" THEN NaN
            ELSE IF x.k = "inf" /\ y.k = "inf" THEN (IF x.s = y.s THEN x ELSE NaN)
            ELSE IF x.k = "inf" THEN x
            ELSE IF y.k = "inf" THEN y
            ELSE Round32(FinAdd(x, y))
            )
      [] op = "FMul" ->
        LET x == arg[1]
            y == arg[2]
        IN  (
            IF x.k = "nan" \/ y.k = "nan" THEN NaN
            ELSE IF x.k = "inf" \/ y.k = "inf"
                 THEN (IF x.s = 0 \/ y.s = 0 THEN NaN ELSE Inf(x.s * y.s))
            ELSE IF x.s = 0 \/ y.s = 0 THEN Zero
            ELSE Round32(Fin(x.s * y.s, NMul(x.n, y.n), x.e + y.e, NMul(x.d, y.d)))
            )
      [] op = "FSub" ->
        LET x == arg[1]
            y == arg[2]
        IN  (
            FAdd(x, FNeg(y))
            )
      [] op = "FNeg" ->
        LET x == arg[1]
        IN  (
            IF x.k = "nan" THEN NaN
            ELSE IF x.k = "inf" THEN Inf(-x.s)
            ELSE [x EXCEPT !.s = -x.s]
            )
      [] op = "FLe" ->
        LET x == arg[1]
            y == arg[2]
        IN  (
            x.k # "nan" /\ y.k # "nan" /\ FCmp(x, y) <= 0
            )
      [] op = "FLt" ->
        LET x == arg[1]
            y == arg[2]
        IN  (
            x.k # "nan" /\ y.k # "nan" /\ FCmp(x, y) < 0
            )
      [] op = "FGt" ->
        LET x == arg[1]
            y == arg[2]
        IN  (
            FLt(y, x)
            )
      [] op = "FEq" ->
        LET x == arg[1]
            y == arg[2]
        IN  (
            x.k # "nan" /\ y.k # "nan" /\ FCmp(x, y) = 0
            )
      [] op = "FDiv" ->
        LET x == arg[1]
            y == arg[2]
        IN  (
            IF x.k = "nan" \/ y.k = "nan" THEN NaN
            ELSE IF x.k = "inf" THEN (IF y.k = "inf" THEN NaN
                                      ELSE Inf(IF y.s < 0 THEN -x.s ELSE x.s))
            ELSE IF y.k = "inf" THEN Zero
            ELSE IF y.s = 0 THEN (IF x.s = 0 THEN NaN ELSE Inf(x.s))
            ELSE IF x.s = 0 THEN Zero
            ELSE LET n == NMul(x.n, y.d)
                     d == NMul(x.d, y.n)
                 IN  Round32(IF x.e >= y.e THEN Fin(x.s * y.s, n, x.e - y.e, d)
                             ELSE Fin(x.s * y.s, NScale10(n, y.e - x.e), 0, d))
            )
      [] op = "FAbs" ->
        LET x == arg[1]
        IN  (
            IF x.k = "nan" THEN NaN
            ELSE IF x.k = "inf" THEN PInf
            ELSE IF x.s < 0 THEN [x EXCEPT !.s = 1] ELSE x
            )
      [] op = "FMaximum" ->
        LET x == arg[1]
            y == arg[2]
        IN  (
            IF x.k = "nan" \/ y.k = "nan" THEN NaN
            ELSE IF FLt(x, y) THEN y ELSE x
            )
      [] op = "FClip" ->
        LET x == arg[1]
            lo == arg[2]
            hi == arg[3]
        IN  (
            IF x.k = "nan" THEN NaN
            ELSE IF FLt(x, lo) THEN lo
            ELSE IF FGt(x, hi) THEN hi
            ELSE x
            )
      [] op = "FPow" ->
        LET x == arg[1]
            p == arg[2]
            q == arg[3]
        IN  (
            IF x.k = "nan" THEN NaN
            ELSE IF x.k = "inf" THEN PInf
            ELSE IF x.s < 0 THEN NaN
            ELSE IF <<x, p, q>> \in DOMAIN PowMemo THEN Round32(PowMemo[<<x, p, q>>])
            ELSE Round32(PowFix(x, p, q))
            )
      [] op = "SrgbArg" ->
        LET v == arg[1]
        IN  (
            FDiv(FAdd(v, Dec(55, 3)), Dec(1055, 3))
            )
      [] op = "Two" ->
        LET j == arg[1]
        IN  (
            IF j >= 0 THEN FInt(2 ^ j) ELSE Frac(1, 2 ^ (-j))
            )
      [] op = "HalfExp" ->
        LET a == arg[1]
            e == arg[2]
        IN  (
            IF e = -14 \/ FLe(Two(e), a) THEN e ELSE HalfExp(a, e - 1)
            )
      [] op = "HalfFloor" ->
        LET a == arg[1]
            q == arg[2]
            lo == arg[3]
            hi == arg[4]
        IN  (
            IF hi - lo <= 1 THEN lo
            ELSE LET mid == (lo + hi) \div 2
                 IN  IF FLe(FMul(FInt(mid), q), a) THEN HalfFloor(a, q, mid, hi)
                     ELSE HalfFloor(a, q, lo, mid)
            )
      [] op = "RoundHalf" ->
        LET x == arg[1]
        IN  (
            IF x.k # "fin" \/ x.s = 0 THEN x
            ELSE LET a == FAbs(x)
                 IN  IF FLe(FInt(65520), a) THEN Inf(x.s)
                     ELSE LET q == Two(HalfExp(a, 15) - 10)
                              m == HalfFloor(a, q, 0, 2048)
                              r == FSub(a, FMul(FInt(m), q))
                              c == FCmp(FAdd(r, r), q)
                              n == IF c > 0 \/ (c = 0 /\ m % 2 = 1) THEN m + 1 ELSE m
                          IN  FMul(FInt(x.s * n), q)
            )
      [] op = "FloorIn" ->
        LET t == arg[1]
            lo == arg[2]
            hi == arg[3]
        IN  (
            IF hi - lo <= 1 THEN lo
            ELSE LET mid == (lo + hi) \div 2
                 IN  IF FLe(FInt(mid), t) THEN FloorIn(t, mid, hi) ELSE FloorIn(t, lo, mid)
            )
      [] op = "Quantise" ->
        LET v == arg[1]
            u == arg[2]
        IN  (
            LET t == FAdd(FMul(FClip(v, Zero, FInt(1)), FInt(255)), Dec(5, 1))
            IN  IF t.k = "nan" THEN u ELSE FloorIn(t, 0, 256)
            )
      [] op = "SumFrom" ->
        LET a == arg[1]
            i == arg[2]
            acc == arg[3]
        IN  (
            IF i > Len(a) THEN acc ELSE SumFrom(a, i + 1, FAdd(acc, a[i]))
            )
      [] op = "Mean" ->
        LET a == arg[1]
        IN  (
            IF Len(a) = 0 THEN NaN ELSE FDiv(SumFrom(a, 1, Zero), FInt(Len(a)))
            )
      [] op = "MeanAxis2" ->
        LET a == arg[1]
        IN  (
            LET c == a.shape[3]
            IN  Array(<<a.shape[1], a.shape[2]>>,
                      <<>> \o [p \in 1..(a.shape[1] * a.shape[2]) |->
                          Mean(SubSeq(a.data, (p - 1) * c + 1, p * c))])
            )
      [] op = "ZeroNonFinite" ->
        LET data == arg[1]
        IN  (
            Map1(LAMBDA v : IF IsFinite(v) THEN v ELSE Zero, data)
            )
      [] op = "L1" ->
        LET img == arg[1]
            ref == arg[2]
        IN  (
            Map2(LAMBDA x, y : FAbs(FSub(x, y)), img, ref)
            )
      [] op = "APE" ->
        LET img == arg[1]
            ref == arg[2]
        IN  (
            Map2(LAMBDA n, r : FDiv(n, FAdd(Hundredth, r)), L1(img, ref), ref)
            )
      [] op = "SAPE" ->
        LET img == arg[1]
            ref == arg[2]
        IN  (
            Map2(LAMBDA n, m : FDiv(n, FAdd(Hundredth, FDiv(m, FInt(2)))),
                 L1(img, ref), Map2(FAdd, ref, img))
            )
      [] op = "L2" ->
        LET img == arg[1]
            ref == arg[2]
        IN  (
            Map2(LAMBDA x, y : LET d == FSub(x, y) IN FMul(d, d), img, ref)
            )
      [] op = "RSE" ->
        LET img == arg[1]
            ref == arg[2]
        IN  (
            Map2(LAMBDA n, r : FDiv(n, FAdd(Hundredth, FMul(r, r))), L2(img, ref), ref)
            )
      [] op = "SortsBefore" ->
        LET x == arg[1]
            y == arg[2]
        IN  (
            IF x.k = "nan" THEN FALSE
            ELSE IF y.k = "nan" THEN TRUE
            ELSE FLe(x, y)
            )
      [] op = "Insert" ->
        LET x == arg[1]
            s == arg[2]
        IN  (
            IF s = <<>> THEN <<x>>
            ELSE IF SortsBefore(x, Head(s)) THEN <<x>> \o s
            ELSE <<Head(s)>> \o Insert(x, Tail(s))
            )
      [] op = "Sort" ->
        LET s == arg[1]
        IN  (
            IF s = <<>> THEN <<>> ELSE Insert(Head(s), Sort(Tail(s)))
            )
      [] op = "TrimSkip" ->
        LET size == arg[1]
        IN  (
            size \div (10 ^ 6)
            )
      [] op = "trim" ->
        LET error == arg[1]
        IN  (
            LET sorted == Sort(error)
                size   == Len(error)
                skip   == TrimSkip(size)
            IN  Mean(SubSeq(sorted, skip + 1, size - skip))
            )
      [] op = "Gamma" ->
        LET v == arg[1]
        IN  (
            FPow(FMaximum(Zero, v), 5, 11)
            )
      [] op = "luminance" ->
        LET a == arg[1]
        IN  (
            IF a.shape[3] < 3
            THEN Raise("IndexError", <<"index out of bounds for axis 2">>)
            ELSE RetArray(Array(<<a.shape[1], a.shape[2]>>,
                    <<>> \o [p \in 1..(a.shape[1] * a.shape[2]) |->
                        LET c == a.shape[3]
                            R == Gamma(a.data[(p - 1) * c + 1])
                            G == Gamma(a.data[(p - 1) * c + 2])
                            B == Gamma(a.data[(p - 1) * c + 3])
                        IN  FAdd(FAdd(FMul(Dec(2126, 4), R), FMul(Dec(7152, 4), G)),
                                 FMul(Dec(722, 4), B))]))
            )
      [] op = "Taps" ->
        LET a == arg[1]
            axis == arg[2]
            i == arg[3]
            j == arg[4]
            t == arg[5]
            acc == arg[6]
        IN  (
            IF t > Len(Kernel) THEN acc
            ELSE LET off == 3 - t
                     v   == IF axis = 0
                            THEN At2(a, Reflect(i - 1 + off, a.shape[1]) + 1, j)
                            ELSE At2(a, i, Reflect(j - 1 + off, a.shape[2]) + 1)
                 IN  Taps(a, axis, i, j, t + 1, FAdd(acc, FMul(Kernel[t], v)))
            )
      [] op = "convolve1d" ->
        LET a == arg[1]
            axis == arg[2]
        IN  (
            Array(a.shape,
                  <<>> \o [p \in 1..(a.shape[1] * a.shape[2]) |->
                      Taps(a, axis, ((p - 1) \div a.shape[2]) + 1, ((p - 1) % a.shape[2]) + 1,
                           1, Zero)])
            )
      [] op = "blur" ->
        LET a == arg[1]
        IN  (
            convolve1d(convolve1d(a, 0), 1)
            )
      [] op = "LocalVar" ->
        LET a == arg[1]
            mA == arg[2]
        IN  (
            Map2(FSub, blur(Array(a.shape, Map2(FMul, a.data, a.data))).data, Map2(FMul, mA, mA))
            )
      [] op = "LocalCov" ->
        LET a == arg[1]
            b == arg[2]
            mA == arg[3]
            mB == arg[4]
        IN  (
            Map2(FSub, blur(Array(a.shape, Map2(FMul, a.data, b.data))).data, Map2(FMul, mA, mB))
            )
      [] op = "SSIMMap" ->
        LET a == arg[1]
            b == arg[2]
        IN  (
            LET mA  == blur(a).data
                mB  == blur(b).data
                sA  == LocalVar(a, mA)
                sB  == LocalVar(b, mB)
                sAB == LocalCov(a, b, mA, mB)
                c1  == Dec(1, 4)
                c2  == Dec(9, 4)
                p1  == <<>> \o [i \in 1..Len(mA) |->
                           FDiv(FAdd(FMul(FMul(FInt(2), mA[i]), mB[i]), c1),
                                FAdd(FAdd(FMul(mA[i], mA[i]), FMul(mB[i], mB[i])), c1))]
                p2  == <<>> \o [i \in 1..Len(mA) |->
                           FDiv(FAdd(FMul(FInt(2), sAB[i]), c2),
                                FAdd(FAdd(sA[i], sB[i]), c2))]
            IN  Array(a.shape, Map2(FMul, p1, p2))
            )
      [] op = "SSIM" ->
        LET a == arg[1]
            b == arg[2]
        IN  (
            LET la == luminance(a)
            IN  IF la.kind = "raise" THEN la
                ELSE LET lb == luminance(b)
                     IN  IF lb.kind = "raise" THEN lb
                         ELSE RetArray(SSIMMap(Array(la.shape, la.data),
                                               Array(lb.shape, lb.data)))
            )
      [] op = "Clip" ->
        LET data == arg[1]
            lo == arg[2]
            hi == arg[3]
        IN  (
            Map1(LAMBDA v : FClip(v, lo, hi), data)
            )
      [] op = "Sanitize" ->
        LET heap == arg[1]
            i == arg[2]
        IN  (
            [heap EXCEPT ![i].data = ZeroNonFinite(@)]
            )
      [] op = "MetricOf" ->
        LET metric == arg[1]
            shape == arg[2]
            img == arg[3]
            ref == arg[4]
        IN  (
            IF metric = "MAE" THEN RetArray(Array(shape, L1(img, ref)))
            ELSE IF metric = "MAPE" THEN RetArray(Array(shape, APE(img, ref)))
            ELSE IF metric = "SMAPE" THEN RetArray(Array(shape, SAPE(img, ref)))
            ELSE IF metric = "MSE" THEN RetArray(Array(shape, L2(img, ref)))
            ELSE IF metric = "MScE"
                 THEN RetArray(Array(shape, L2(Clip(img, Zero, FInt(1)), Clip(ref, Zero, FInt(1)))))
            ELSE IF metric = "MRSE" THEN RetArray(Array(shape, RSE(img, ref)))
            ELSE IF metric = "MtRSE" THEN RetScalar(trim(RSE(img, ref)))
            ELSE IF metric = "MRScE"
                 THEN RetArray(Array(shape, RSE(Clip(img, Zero, FInt(100)),
                                                Clip(ref, Zero, FInt(100)))))
            ELSE IF metric = "SSIM"
                 THEN SSIM(Array(shape, Clip(img, Zero, FInt(1))),
                           Array(shape, Clip(ref, Zero, FInt(1))))
            ELSE UnknownMetric(metric)
            )
      [] op = "compute_error_img" ->
        LET heap == arg[1]
            metric == arg[2]
            i == arg[3]
            r == arg[4]
        IN  (
            LET h1  == Sanitize(heap, i)
                img == Map1(LAMBDA v : FMaximum(v, Zero), h1[i].data)
            IN  [heap |-> h1, ret |-> MetricOf(metric, h1[i].shape, img, h1[r].data)]
            )
      [] op = "compute_error" ->
        LET heap == arg[1]
            metric == arg[2]
            i == arg[3]
            r == arg[4]
        IN  (
            LET c == compute_error_img(heap, metric, i, r)
                m == c.ret
            IN  [heap |-> c.heap,
                 ret  |-> IF m.kind = "raise" THEN m
                          ELSE IF m.kind = "scalar"
                          THEN Raise("TypeError", <<"object does not support item assignment">>)
                          ELSE LET z == Array(m.shape, ZeroNonFinite(m.data))
                                   f == IF Len(z.shape) = 3 THEN MeanAxis2(z) ELSE z
                               IN  RetScalar(Mean(f.data))]
            )
      [] op = "DStack" ->
        LET img == arg[1]
            k == arg[2]
            fill == arg[3]
        IN  (
            LET c == img.shape[3]
            IN  Array(<<img.shape[1], img.shape[2], c + k>>,
                      <<>> \o [i \in 1..(img.shape[1] * img.shape[2] * (c + k)) |->
                          LET p  == (i - 1) \div (c + k)
                              ch == ((i - 1) % (c + k)) + 1
                          IN  IF ch <= c THEN img.data[p * c + ch] ELSE fill])
            )
      [] op = "PadOnes" ->
        LET img == arg[1]
        IN  (
            IF img.shape[3] < 4 THEN DStack(img, 4 - img.shape[3], FInt(1)) ELSE img
            )
      [] op = "WriteBin" ->
        LET img == arg[1]
        IN  (
            LET p == PadOnes(img)
            IN  BinFile(p.shape[1], p.shape[2], Map1(RoundHalf, p.data), 0)
            )
      [] op = "frombuffer" ->
        LET f == arg[1]
            count == arg[2]
        IN  (
            IF PayloadBytes(f) < 2 * count
            THEN Raise("ValueError", <<"buffer is smaller than requested size">>)
            ELSE RetArray(Array(<<count>>, SubSeq(f.data, 1, count)))
            )
      [] op = "ReadBin" ->
        LET f == arg[1]
        IN  (
            IF f.kind = "absent" THEN FileNotFound
            ELSE IF f.kind = "short"
            THEN Raise("struct.error", <<"unpack requires a buffer of 8 bytes">>)
            ELSE LET b == frombuffer(f, f.h * f.w * 4)
                 IN  IF b.kind = "raise" THEN b
                     ELSE RetArray(Array(<<f.h, f.w, 4>>, b.data))
            )
      [] op = "srgb_to_linear" ->
        LET v == arg[1]
        IN  (
            IF FGt(v, Dec(4045, 5)) THEN FPow(SrgbArg(v), 12, 5)
            ELSE FDiv(v, Dec(1292, 2))
            )
      [] op = "linear_to_srgb" ->
        LET v == arg[1]
        IN  (
            IF FGt(v, Dec(31308, 7))
            THEN FSub(FMul(Dec(1055, 3), FPow(v, 5, 12)), Dec(55, 3))
            ELSE FMul(Dec(1292, 2), v)
            )
      [] op = "read_image_pillow" ->
        LET f == arg[1]
        IN  (
            Array(<<f.h, f.w, 4>>, Map1(LAMBDA b : Frac(b, 255), ConvertRGBA(f)))
            )
      [] op = "Premultiply" ->
        LET v == arg[1]
            a == arg[2]
        IN  (
            FMul(v, a)
            )
      [] op = "ReadRaster" ->
        LET f == arg[1]
        IN  (
            IF f.kind = "absent" THEN FileNotFound
            ELSE LET img == read_image_pillow(f)
                     lin == OnRGB(LAMBDA v, a : srgb_to_linear(v), img)
                 IN  RetArray(OnRGB(Premultiply, lin))
            )
      [] op = "Unmultiply" ->
        LET v == arg[1]
            a == arg[2]
        IN  (
            IF a.k = "fin" /\ a.s = 0 THEN Zero ELSE FDiv(v, a)
            )
      [] op = "Encoded" ->
        LET img == arg[1]
        IN  (
            IF img.shape[3] = 4
            THEN OnRGB(LAMBDA v, a : linear_to_srgb(v), OnRGB(Unmultiply, img))
            ELSE Array(img.shape, Map1(linear_to_srgb, img.data))
            )
      [] op = "write_image_pillow" ->
        LET files == arg[1]
            file == arg[2]
            img == arg[3]
            u == arg[4]
        IN  (
            IF img.shape[3] \in {2, 3, 4}
            THEN [disk |-> [files EXCEPT ![file] =
                                RasterFile(img.shape[1], img.shape[2], img.shape[3],
                                           Map1(LAMBDA v : Quantise(v, u), img.data))],
                  ret  |-> RetNone]
            ELSE [disk |-> files, ret |-> Raise("TypeError", <<"Cannot handle this data type">>)]
            )
      [] op = "read_image" ->
        LET files == arg[1]
            file == arg[2]
        IN  (
            IF splitext(file) = ".bin" THEN ReadBin(files[file])
            ELSE ReadRaster(files[file])
            )
      [] op = "write_image" ->
        LET files == arg[1]
            file == arg[2]
            img == arg[3]
            u == arg[4]
        IN  (
            IF splitext(file) = ".bin"
            THEN [disk |-> [files EXCEPT ![file] = WriteBin(img)], ret |-> RetNone]
            ELSE write_image_pillow(files, file, Encoded(img), u)
            )

(***************************************************************************)
(* The caller: two loaded arrays of one shape and the metric calls on      *)
(* them; an image in memory, the files, and the codec calls on them        *)
(***************************************************************************)
MaxSide == 2

MaxSurplus == 1

RECURSIVE Flatten(_)
Flatten(px) == IF px = <<>> THEN <<>> ELSE Head(px) \o Flatten(Tail(px))

Shapes == {s \in (1..MaxSide) \X (1..MaxSide) : s[1] * s[2] <= MaxSide}

GreyImages == {Array(<<1, 1, 1>>, <<v>>) : v \in Palette}

ColourImages(h, w) ==
    {Array(<<h, w, 3>>, Flatten(px)) : px \in [1..(h * w) -> Colours]}

Refs == {1, 2}

UnknownMetrics == {"FOO", "mae"}

\* the element of sequence s at position k, counted cyclically
Cyc(s, k) == s[((k - 1) % Len(s)) + 1]

\* images written to .bin files: values on both sides of every rounding case
BinSeq == <<Dec(1, 1), FInt(1), Frac(1, 3), FInt(2049), FInt(2051), FInt(65504),
            FInt(65519), FInt(65520), Huge, Dec(1, 8), Dec(3, 8), Dec(-5, 1),
            NaN, PInf, NInf, Zero>>

BinImages ==
    {Array(<<s[1], s[2], c>>,
           <<>> \o [i \in 1..(s[1] * s[2] * c) |-> Cyc(BinSeq, k + i - 1)]) :
        s \in Shapes, c \in {1, 3, 4}, k \in 1..Len(BinSeq)}

\* .bin files that something else left on disk
ForeignBin ==
    {ShortFile} \cup
    {BinFile(hw[1], hw[2], <<>> \o [i \in 1..n |-> FInt(i)], odd) :
        hw \in Shapes,
        n \in 0..(4 * MaxSide + MaxSurplus), odd \in {0, 1}}

\* raster files on disk: RGBA and RGB
RasterPixel(k, j) ==
    <<Cyc(RasterBytes, k), Cyc(RasterBytes, k + 1), Cyc(RasterBytes, k + 2),
      Cyc(RasterAlphas, j)>>

RasterFiles ==
    {RasterFile(s[1], s[2], 4,
                Flatten([p \in 1..(s[1] * s[2]) |-> RasterPixel(k + 3 * (p - 1), j + p - 1)])) :
        s \in Shapes, k \in 1..Len(RasterBytes), j \in 1..Len(RasterAlphas)}
    \cup {RasterFile(1, 1, 3, SubSeq(RasterPixel(k, 1), 1, 3)) : k \in 1..Len(RasterBytes)}

\* images in memory that are written to raster files
RasterImages ==
    {Array(<<1, 1, 3>>, <<NaN, Dec(5, 1), FInt(2)>>),
     Array(<<1, 1, 1>>, <<Dec(5, 1)>>),
     Array(<<1, 1, 4>>, <<Dec(5, 1), Zero, FInt(1), Zero>>),
     Array(<<1, 1, 4>>, <<Dec(25, 2), Dec(5, 1), Dec(-1, 1), Dec(5, 1)>>)}

BinPath == Path("a", ".bin")
RasterPath == Path("a", ".png")
Files == {BinPath, RasterPath}

VARIABLES arr, loaded, pc, call, ret, mem, disk, written, memfile

vars == <<arr, loaded, pc, call, ret, mem, disk, written, memfile>>

NoCall == [op |-> "", metric |-> "", img |-> 0, ref |-> 0, path |-> Path("", "")]

Loads ==
    {<<a, b>> : a \in GreyImages, b \in GreyImages}
    \cup UNION {ColourImages(s[1], s[2]) \X ColourImages(s[1], s[2]) : s \in Shapes}

Idle ==
    /\ pc = "idle"
    /\ call = NoCall
    /\ ret = NoRet
    /\ written = [f \in Files |-> NoImage]
    /\ memfile = Absent

Init ==
    /\ \E ab \in Loads : arr = <<ab[1], ab[2]>>
    /\ loaded = arr
    /\ Idle
    /\ mem = NoImage
    /\ disk = [f \in Files |-> Absent]

InitBin ==
    /\ arr = <<>>
    /\ loaded = arr
    /\ Idle
    /\ \/ mem \in BinImages /\ disk = [f \in Files |-> Absent]
       \/ /\ mem = NoImage
          /\ \E b \in ForeignBin : disk = [f \in Files |-> IF f = BinPath THEN b ELSE Absent]

InitRaster ==
    /\ arr = <<>>
    /\ loaded = arr
    /\ Idle
    /\ \/ mem \in RasterImages /\ disk = [f \in Files |-> Absent]
       \/ /\ mem = NoImage
          /\ \E r \in RasterFiles :
                 disk = [f \in Files |-> IF f = RasterPath THEN r ELSE Absent]

ComputeErrorImg(metric, i, r) ==
    /\ pc = "idle"
    /\ LET c == compute_error_img(arr, metric, i, r)
       IN  /\ arr' = c.heap
           /\ ret' = c.ret
    /\ call' = [NoCall EXCEPT !.op = "compute_error_img", !.metric = metric,
                              !.img = i, !.ref = r]
    /\ pc' = "returned"
    /\ UNCHANGED <<loaded, mem, disk, written, memfile>>

ComputeError(metric, i, r) ==
    /\ pc = "idle"
    /\ LET c == compute_error(arr, metric, i, r)
       IN  /\ arr' = c.heap
           /\ ret' = c.ret
    /\ call' = [NoCall EXCEPT !.op = "compute_error", !.metric = metric,
                              !.img = i, !.ref = r]
    /\ pc' = "returned"
    /\ UNCHANGED <<loaded, mem, disk, written, memfile>>

\* write_image(file, mem)
WriteImage(file, u) ==
    /\ pc = "idle"
    /\ mem # NoImage
    /\ LET c == write_image(disk, file, mem, u)
       IN  /\ disk' = c.disk
           /\ ret' = c.ret
           /\ written' = IF c.ret.kind = "raise" THEN written
                         ELSE [written EXCEPT ![file] = mem]
    /\ call' = [NoCall EXCEPT !.op = "write_image", !.path = file]
    /\ pc' = "returned"
    /\ UNCHANGED <<arr, loaded, mem, memfile>>

\* read_image(file)
ReadImage(file) ==
    /\ pc = "idle"
    /\ ret' = read_image(disk, file)
    /\ call' = [NoCall EXCEPT !.op = "read_image", !.path = file]
    /\ pc' = "returned"
    /\ UNCHANGED <<arr, loaded, mem, disk, written, memfile>>

\* the call is over; the caller keeps an image that read_image returned
Return ==
    /\ pc = "returned"
    /\ pc' = "idle"
    /\ call' = NoCall
    /\ ret' = NoRet
    /\ IF call.op = "read_image" /\ ret.kind = "array"
       THEN mem' = Array(ret.shape, ret.data) /\ memfile' = disk[call.path]
       ELSE UNCHANGED <<mem, memfile>>
    /\ UNCHANGED <<arr, loaded, disk, written>>

\* the bytes a cast of NaN to uint8 may give
NanBytes(img) == IF \A i \in 1..Len(img.data) : IsFinite(img.data[i]) THEN {0} ELSE {0, 255}

Next ==
    \/ \E m \in Metrics \cup UnknownMetrics, i \in Refs, r \in Refs :
           ComputeErrorImg(m, i, r)
    \/ \E m \in Metrics \cup UnknownMetrics, i \in Refs, r \in Refs :
           ComputeError(m, i, r)
    \/ Return

NextBin ==
    \/ \E u \in NanBytes(mem) : WriteImage(BinPath, u)
    \/ ReadImage(BinPath)
    \/ Return

NextRaster ==
    \/ \E u \in NanBytes(mem) : WriteImage(RasterPath, u)
    \/ ReadImage(RasterPath)
    \/ Return

Spec == Init /\ [][Next]_vars

SpecBin == InitBin /\ [][NextBin]_vars

SpecRaster == InitRaster /\ [][NextRaster]_vars

(***************************************************************************)
(* Properties of the metric calls                                          *)
(***************************************************************************)
\* the same float: both NaN, the same infinity, or equal finite values
SameVal(x, y) == /\ x.k = y.k
                 /\ x.k = "inf" => x.s = y.s
                 /\ x.k = "fin" => FCmp(x, y) = 0

SameRet(r1, r2) ==
    /\ r1.kind = r2.kind
    /\ r1.shape = r2.shape
    /\ r1.exc = r2.exc
    /\ r1.msg = r2.msg
    /\ Len(r1.data) = Len(r2.data)
    /\ \A i \in 1..Len(r1.data) : SameVal(r1.data[i], r2.data[i])

Returned(op) == pc = "returned" /\ call.op = op

AllFinite(a) == \A i \in 1..Len(a.data) : IsFinite(a.data[i])

\* the scalar the specification promises for an error map
PromisedMean(m) ==
    IF m.kind = "scalar" THEN (IF IsFinite(m.data[1]) THEN m.data[1] ELSE Zero)
    ELSE LET z == Array(m.shape, ZeroNonFinite(m.data))
         IN  Mean((IF Len(z.shape) = 3 THEN MeanAxis2(z) ELSE z).data)

\* C1: for each of the nine metrics compute_error completes without raising
\* and returns the mean of the error map, non-finite entries zeroed and
\* channels averaged.
C1_ComputeErrorReturnsMean ==
    (Returned("compute_error") /\ call.metric \in Metrics) =>
        /\ ret.kind = "scalar"
        /\ LET m == compute_error_img(arr, call.metric, call.img, call.ref).ret
           IN  m.kind # "raise" /\ SameVal(ret.data[1], PromisedMean(m))

IdentityMetrics == {"MAE", "MAPE", "SMAPE", "MSE", "MRSE"}

IsZeroScalar(r) == r.kind = "scalar" /\ SameVal(r.data[1], Zero)

\* C2 as stated: compute_error(metric, img, img) is 0 for any image, whatever
\* the sign of its entries, for MAE, MAPE, SMAPE, MSE and MRSE.
C2_IdentityLaw ==
    (Returned("compute_error") /\ call.metric \in IdentityMetrics
        /\ call.img = call.ref) => IsZeroScalar(ret)

NoNegativeEntry(a) ==
    \A i \in 1..Len(a.data) : ~(a.data[i].k = "fin" /\ a.data[i].s < 0)

\* C2 amended: compute_error(metric, img, img) is 0 for MAE, MAPE, SMAPE, MSE
\* and MRSE when no finite entry of img is negative (img given twice, or
\* given with an equal copy).
C2_IdentityLawNonNegative ==
    (Returned("compute_error") /\ call.metric \in IdentityMetrics
        /\ (call.img = call.ref \/ loaded[call.img] = loaded[call.ref])
        /\ NoNegativeEntry(loaded[call.img])) => IsZeroScalar(ret)

C2_Witness ==
    /\ Returned("compute_error") /\ call.metric = "MAPE" /\ call.img = call.ref
    /\ loaded[call.img].shape[3] = 3
    /\ NoNegativeEntry(loaded[call.img])
    /\ \E i \in 1..Len(loaded[call.img].data) : loaded[call.img].data[i].s > 0
    /\ IsZeroScalar(ret)

\* C3: a call leaves every entry of the caller's candidate and reference
\* arrays as it was.
C3_ArgumentsUnchanged == [][arr' = arr]_vars

\* C4: what a call returns depends only on the metric and on the contents the
\* two arrays had when loaded, not on the calls made before it.
C4_StatelessAcrossCalls ==
    pc = "returned" =>
        SameRet(ret,
                IF call.op = "compute_error"
                THEN compute_error(loaded, call.metric, call.img, call.ref).ret
                ELSE compute_error_img(loaded, call.metric, call.img, call.ref).ret)

\* C7: an unrecognised metric name makes compute_error_img and compute_error
\* raise a ValueError whose message holds that name; nothing is returned.
C7_UnknownMetricRaises ==
    (pc = "returned" /\ call.metric \notin Metrics) =>
        /\ ret.kind = "raise"
        /\ ret.exc = "ValueError"
        /\ \E i \in 1..Len(ret.msg) : ret.msg[i] = call.metric
        /\ ret.data = <<>>

C7_Witness ==
    /\ Returned("compute_error") /\ call.metric = "FOO"
    /\ ret.kind = "raise" /\ ret.msg = <<"Unknown metric: ", "FOO", ".">>

IsOne(v) == SameVal(v, FInt(1))

SSIMSelfIsOne ==
    /\ call.op = "compute_error" => ret.kind = "scalar" /\ IsOne(ret.data[1])
    /\ call.op = "compute_error_img" =>
           /\ ret.kind = "array"
           /\ ret.shape = <<arr[call.img].shape[1], arr[call.img].shape[2]>>
           /\ \A i \in 1..Len(ret.data) : IsOne(ret.data[i])

PerPixelMetrics == {"MAE", "MAPE", "SMAPE", "MSE", "MScE", "MRSE", "MRScE"}

NonNegativeFiniteMap ==
    /\ ret.kind = "array"
    /\ \A i \in 1..Len(ret.data) : IsFinite(ret.data[i]) /\ ret.data[i].s >= 0

\* C9 as stated: for finite candidate and reference entries of either sign,
\* every entry of the error map of a per-pixel metric is non-negative and
\* finite.
C9_ErrorMapNonNegativeFinite ==
    (Returned("compute_error_img") /\ call.metric \in PerPixelMetrics
        /\ AllFinite(loaded[call.img]) /\ AllFinite(loaded[call.ref]))
    => NonNegativeFiniteMap

Within(a, bound) == \A i \in 1..Len(a.data) : FLe(FAbs(a.data[i]), bound)

NonNegative(a) == \A i \in 1..Len(a.data) : a.data[i].k = "fin" /\ a.data[i].s >= 0

\* C9 amended: the same for entries of magnitude at most 1e18 (no float32
\* overflow), and for MAPE and SMAPE only when no reference entry is negative.
C9_ErrorMapNonNegativeFiniteBounded ==
    (Returned("compute_error_img") /\ call.metric \in PerPixelMetrics
        /\ Within(loaded[call.img], Large) /\ Within(loaded[call.ref], Large)
        /\ (call.metric \in {"MAPE", "SMAPE"} => NonNegative(loaded[call.ref])))
    => NonNegativeFiniteMap

C9_Witness ==
    /\ Returned("compute_error_img") /\ call.metric = "SMAPE"
    /\ arr[call.img].data = <<Dec(-1, 0)>> /\ arr[call.ref].data = <<Large>>
    /\ NonNegativeFiniteMap /\ ret.data[1].s > 0

(***************************************************************************)
(* Properties of the codec calls                                           *)
(***************************************************************************)
\* g is x rounded to half precision: within half a unit in the last of 11
\* bits (2^-25 below the normal range), an infinity from 65520 on
IsHalfOf(g, x) ==
    IF x.k = "nan" THEN g.k = "nan"
    ELSE IF x.k = "inf" THEN g = x
    ELSE IF FLe(FInt(65520), FAbs(x)) THEN g = Inf(x.s)
    ELSE /\ g.k = "fin"
         /\ LET err == FAbs(FSub(g, x))
            IN  FLe(err, FDiv(FAbs(x), FInt(2048))) \/ FLe(err, Two(-25))

\* read_image has returned from a .bin file that write_image wrote
ReadBack ==
    Returned("read_image") /\ call.path = BinPath /\ written[BinPath] # NoImage

\* C5 as stated: writing an h x w x c image to a .bin path and reading it back
\* gives an array of the same dimensions whose entries are the written ones
\* rounded to half precision.
C5_BinRoundTrip ==
    ReadBack =>
        /\ ret.kind = "array"
        /\ ret.shape = written[BinPath].shape
        /\ Len(ret.data) = Len(written[BinPath].data)
        /\ \A i \in 1..Len(ret.data) : IsHalfOf(ret.data[i], written[BinPath].data[i])

\* C5 amended: reading back gives an h x w x 4 array; its first c channels
\* are the written ones rounded to half precision and the others are 1.
C5_BinRoundTripPadded ==
    ReadBack =>
        LET img == written[BinPath]
            h == img.shape[1]
            w == img.shape[2]
            c == img.shape[3]
        IN  /\ ret.kind = "array"
            /\ ret.shape = <<h, w, 4>>
            /\ Len(ret.data) = h * w * 4
            /\ \A p \in 0..(h * w - 1), ch \in 1..4 :
                   IF ch <= c THEN IsHalfOf(ret.data[4 * p + ch], img.data[c * p + ch])
                   ELSE IsOne(ret.data[4 * p + ch])

C5_Witness ==
    /\ ReadBack
    /\ written[BinPath].shape = <<1, 2, 3>>
    /\ ret.shape = <<1, 2, 4>>
    /\ written[BinPath].data[1] = Frac(1, 3)
    /\ ~SameVal(ret.data[1], Frac(1, 3))
    /\ IsOne(ret.data[4]) /\ IsOne(ret.data[8])

\* C6: reading a .bin file with a whole header fails exactly when its payload
\* is not 2 * 4 * h * w bytes long, be it shorter or longer.
C6_BinLengthChecked ==
    (Returned("read_image") /\ call.path = BinPath /\ disk[BinPath].kind = "bin") =>
        (ret.kind = "raise" <=>
            PayloadBytes(disk[BinPath]) # 2 * 4 * disk[BinPath].h * disk[BinPath].w)

AbsDiff(a, b) == IF a < b THEN b - a ELSE a - b

\* C10: an image read from an RGBA raster file and written back gives a file
\* of the same size in which a pixel of non-zero alpha has its four 8-bit
\* values within 1 of the original ones and a pixel of alpha zero has red,
\* green and blue 0; no value handed to the quantisation is NaN or infinite.
C10_RasterRoundTrip ==
    (Returned("write_image") /\ call.path = RasterPath
        /\ memfile.kind = "raster" /\ memfile.c = 4) =>
        LET out == disk[RasterPath]
        IN  /\ ret.kind = "None"
            /\ out.kind = "raster"
            /\ <<out.h, out.w, out.c>> = <<memfile.h, memfile.w, 4>>
            /\ Len(out.data) = Len(memfile.data)
            /\ AllFinite(Encoded(mem))
            /\ \A p \in 0..(memfile.h * memfile.w - 1) :
                   IF memfile.data[4 * p + 4] # 0
                   THEN \A ch \in 1..4 :
                            AbsDiff(out.data[4 * p + ch], memfile.data[4 * p + ch]) <= 1
                   ELSE \A ch \in 1..3 : out.data[4 * p + ch] = 0

C10_Witness ==
    /\ Returned("write_image") /\ call.path = RasterPath
    /\ memfile.kind = "raster" /\ memfile.c = 4 /\ memfile.h * memfile.w = 2
    /\ \E p, q \in 0..1 :
           /\ memfile.data[4 * p + 4] = 0
           /\ memfile.data[4 * p + 1] = 128
           /\ disk[RasterPath].data[4 * p + 1] = 0
           /\ memfile.data[4 * q + 4] = 1
           /\ memfile.data[4 * q + 3] = 11
           /\ SubSeq(disk[RasterPath].data, 4 * q + 1, 4 * q + 4)
                  = SubSeq(memfile.data, 4 * q + 1, 4 * q + 4)
====
